---- MODULE Spec2Model ----
(***************************************************************************)
(* A model of src/exif-parallel-organizer.py: the scan of a folder into a  *)
(* date histogram, the rename decision, RenameExecutor.execute under its   *)
(* lock, and MediaFolderOrganizer.run with its worker pool, its collection *)
(* loop and its reports.  File and folder names are sequences of           *)
(* one-character strings, so that the regular expressions, the casing, the *)
(* " (n)" suffix and the quoting of the undo script are computed and not   *)
(* assumed.  Every folder the run handles is an immediate subdirectory of  *)
(* the target root, so a path is modelled by its base name in the root.    *)
(***************************************************************************)
EXTENDS Integers, Sequences, FiniteSets, TLC

(* ------------------------------------------------------------------ *)
(* Bounds of the model                                                 *)
(* ------------------------------------------------------------------ *)
MaxFolders == 2
MaxWorkers == 2
MaxExternal == 1
MaxRuns == 2
MaxFiles == 3
MaxDen == 3
MaxBulk == 51
MaxTail == 2
MaxTaken == 9

(* ------------------------------------------------------------------ *)
(* Program constants                                                   *)
(* ------------------------------------------------------------------ *)
SAMPLE_SIZE == 50
MIN_YEAR == 2000
\* datetime.now().year + 1, with the clock read in 2026
MAX_YEAR == 2027

INVALID_FILENAME_CHARS == {"<", ">", ":", "\"", "/", "\\", "|", "?", "*"}
IMAGE_EXT == {".jpg", ".jpeg", ".png", ".tiff", ".heic"}
VIDEO_EXT == {".mp4", ".mov", ".avi", ".mkv", ".3gp", ".m4v"}
DEFAULT_IGNORED_EXT == {".db", ".tmp", ".ini", ".txt", ".log", ".json", ".sh", ".py"}
\* the members of the ignore set that the folder names of the model can spell
DEFAULT_IGNORED_DIRS ==
    { <<"v", "e", "n", "v">>, <<".", "g", "i", "t">> }
\* whether the optional video metadata library was imported
HACHOIR_AVAILABLE == TRUE

\* the absence of a date; no datetime has the year 0
None == [y |-> 0, m |-> 0, d |-> 0]

(* ------------------------------------------------------------------ *)
(* Strings as sequences of characters                                  *)
(* ------------------------------------------------------------------ *)
DigitChars == <<"0", "1", "2", "3", "4", "5", "6", "7", "8", "9">>
IsDigit(c) == \E i \in 1..10 : DigitChars[i] = c
IsSpace(c) == c = " "
LowerChars == <<"a", "b">>
UpperChars == <<"A", "B">>
IsLower(c) == \E i \in 1..Len(LowerChars) : LowerChars[i] = c
IsUpper(c) == \E i \in 1..Len(UpperChars) : UpperChars[i] = c
IsCased(c) == IsLower(c) \/ IsUpper(c)
CharUpper(c) ==
    IF IsLower(c)
    THEN UpperChars[CHOOSE i \in 1..Len(LowerChars) : LowerChars[i] = c]
    ELSE c
CharLower(c) ==
    IF IsUpper(c)
    THEN LowerChars[CHOOSE i \in 1..Len(UpperChars) : UpperChars[i] = c]
    ELSE c

\* str.upper(), str.lower(), str.title()
StrUpper(s) == [i \in 1..Len(s) |-> CharUpper(s[i])]
StrLower(s) == [i \in 1..Len(s) |-> CharLower(s[i])]
StrTitle(s) ==
    [i \in 1..Len(s) |->
        IF i = 1 \/ ~IsCased(s[i - 1]) THEN CharUpper(s[i]) ELSE CharLower(s[i])]

\* str.strip(): the whitespace of both ends removed
RECURSIVE LStrip(_)
LStrip(s) ==
    IF s # <<>> /\ IsSpace(Head(s)) THEN LStrip(Tail(s)) ELSE s
RECURSIVE RStrip(_)
RStrip(s) ==
    IF s # <<>> /\ IsSpace(s[Len(s)]) THEN RStrip(SubSeq(s, 1, Len(s) - 1)) ELSE s
Strip(s) == RStrip(LStrip(s))

\* the decimal digits of a natural number, as str(n) and "%0<w>d" write them
RECURSIVE ToDec(_)
ToDec(n) ==
    IF n < 10 THEN <<DigitChars[n + 1]>>
    ELSE ToDec(n \div 10) \o <<DigitChars[(n % 10) + 1]>>
RECURSIVE ZeroPad(_, _)
ZeroPad(s, w) == IF Len(s) >= w THEN s ELSE ZeroPad(<<"0">> \o s, w)

\* date_obj.strftime("%Y-%m-%d") of a date [y, m, d]
strftime(dt) ==
    ZeroPad(ToDec(dt.y), 4) \o <<"-">> \o ZeroPad(ToDec(dt.m), 2)
        \o <<"-">> \o ZeroPad(ToDec(dt.d), 2)

(* ------------------------------------------------------------------ *)
(* MetadataScanner                                                     *)
(*                                                                     *)
(* A file of a folder is [ext, thumb, meta]: its lower-cased           *)
(* extension, whether its name holds one of the ignored substrings,    *)
(* and the date its metadata holds (None: no metadata, or metadata     *)
(* that does not parse).  A listing is the files in the order os.walk  *)
(* yields them, ignored subdirectories already pruned.                 *)
(* ------------------------------------------------------------------ *)

\* _parse_date: the date of an EXIF string, kept when its year is plausible
parse_date(meta) ==
    IF meta = None THEN None
    ELSE IF MIN_YEAR <= meta.y /\ meta.y <= MAX_YEAR THEN meta ELSE None

get_image_date(f) == parse_date(f.meta)

\* _get_video_date returns the container's creation date as it is
get_video_date(f) ==
    IF ~HACHOIR_AVAILABLE THEN None ELSE f.meta

get_date(f) ==
    IF f.ext \in IMAGE_EXT THEN get_image_date(f)
    ELSE IF f.ext \in VIDEO_EXT THEN get_video_date(f)
    ELSE None

\* lines 74-80, for one file name of the walk: images are inserted at the
\* front, videos appended
file_found(acc, f) ==
    IF f.thumb \/ f.ext \in DEFAULT_IGNORED_EXT THEN acc
    ELSE IF f.ext \in IMAGE_EXT THEN <<f>> \o acc
    ELSE IF f.ext \in VIDEO_EXT THEN Append(acc, f)
    ELSE acc

\* lines 72-80
RECURSIVE files_found(_, _)
files_found(listing, acc) ==
    IF listing = <<>> THEN acc
    ELSE files_found(Tail(listing), file_found(acc, Head(listing)))

\* date_counter[key] += 1 on a Counter kept in insertion order
CounterAdd_twice(counter, key) ==
    IF \E i \in 1..Len(counter) : counter[i].date = key
    THEN [i \in 1..Len(counter) |->
            IF counter[i].date = key
            THEN [date |-> key, n |-> counter[i].n + 2]
            ELSE counter[i]]
    ELSE Append(counter, [date |-> key, n |-> 2])
CounterAdd(counter, key) ==
    IF \E i \in 1..Len(counter) : counter[i].date = key
    THEN [i \in 1..Len(counter) |->
            IF counter[i].date = key
            THEN [date |-> key, n |-> counter[i].n + 1]
            ELSE counter[i]]
    ELSE Append(counter, [date |-> key, n |-> 1])

\* line 88: if valid_dates_found >= SAMPLE_SIZE: break
CapReached_late(valid_dates_found) == valid_dates_found > SAMPLE_SIZE
CapReached(valid_dates_found) == valid_dates_found >= SAMPLE_SIZE

\* one pass of the loop of lines 87-94 over the files that are left
RECURSIVE scan_loop(_, _, _, _)
scan_loop(files, date_counter, scanned_count, valid_dates_found) ==
    IF files = <<>> \/ CapReached(valid_dates_found)
    THEN [dates |-> date_counter, total |-> scanned_count]
    ELSE LET date_obj == get_date(Head(files))
         IN  IF date_obj # None
             THEN scan_loop(Tail(files), CounterAdd(date_counter, strftime(date_obj)),
                            scanned_count + 1, valid_dates_found + 1)
             ELSE scan_loop(Tail(files), date_counter,
                            scanned_count + 1, valid_dates_found)

scan_folder(listing) ==
    LET found == files_found(listing, <<>>)
    IN  IF found = <<>> THEN [dates |-> <<>>, total |-> 0]
        ELSE scan_loop(found, <<>>, 0, 0)

\* Counter.most_common(1): the first inserted entry among those of the
\* largest count
most_common_last(counter) ==
    LET best == CHOOSE i \in 1..Len(counter) :
                    /\ \A j \in 1..Len(counter) : counter[j].n <= counter[i].n
                    /\ \A j \in (i + 1)..Len(counter) : counter[j].n < counter[i].n
    IN  counter[best]
most_common(counter) ==
    LET best == CHOOSE i \in 1..Len(counter) :
                    /\ \A j \in 1..Len(counter) : counter[j].n <= counter[i].n
                    /\ \A j \in 1..(i - 1) : counter[j].n < counter[i].n
    IN  counter[best]

(* ------------------------------------------------------------------ *)
(* RenameExecutor: the pure parts                                      *)
(* ------------------------------------------------------------------ *)
sanitize_name(name) ==
    Strip(SelectSeq(name, LAMBDA c : c \notin INVALID_FILENAME_CHARS))

\* f"{base_path} ({counter})"
Suffixed(base_path, counter) ==
    base_path \o <<" ", "(">> \o ToDec(counter) \o <<")">>

\* get_unique_path against the names that exist; the loop of lines 152-155
RECURSIVE unique_from(_, _, _)
unique_from(exists, base_path, counter) ==
    IF Suffixed(base_path, counter) \notin exists
    THEN Suffixed(base_path, counter)
    ELSE unique_from(exists, base_path, counter + 1)

get_unique_path_suffixed(exists, base_path) ==
    unique_from(exists, base_path, 1)
get_unique_path(exists, base_path) ==
    IF base_path \notin exists THEN base_path
    ELSE unique_from(exists, base_path, 1)

(* ------------------------------------------------------------------ *)
(* MediaFolderOrganizer: the decision                                  *)
(* ------------------------------------------------------------------ *)
\* re.sub(r"^[\d\.\-\/\s]+", "", name)
IsNoise(c) == IsDigit(c) \/ c = "." \/ c = "-" \/ c = "/" \/ IsSpace(c)
RECURSIVE StripNoise(_)
StripNoise(s) ==
    IF s # <<>> /\ IsNoise(Head(s)) THEN StripNoise(Tail(s)) ELSE s

clean_base_name(name, case) ==
    LET clean == Strip(StripNoise(name))
    IN  IF clean = <<>> THEN <<>>
        ELSE IF case = "upper" THEN StrUpper(clean)
        ELSE IF case = "lower" THEN StrLower(clean)
        ELSE StrTitle(clean)

\* line 228: conf = count / total if total > 0 else 0, as a fraction
confidence_of(count, total) ==
    IF total > 0 THEN [num |-> count, den |-> total] ELSE [num |-> 0, den |-> 1]

\* conf < self.confidence, with conf = count / total if total > 0 else 0.
\* The threshold is the fraction [num, den]; for the counts and
\* denominators of the model the two floats compare as the fractions do.
LowConfidence_inclusive(count, total, threshold) ==
    IF total > 0
    THEN count * threshold.den <= threshold.num * total
    ELSE 0 < threshold.num
LowConfidence(count, total, threshold) ==
    LET conf == confidence_of(count, total)
    IN  conf.num * threshold.den < threshold.num * conf.den

\* f"{top_date} {base_name}".strip()
new_name_candidate(top_date, base_name) ==
    Strip(top_date \o <<" ">> \o base_name)

\* the texts of the reasons and messages
NO_VALID_DATES ==
    <<"N", "o", " ", "v", "a", "l", "i", "d", " ", "d", "a", "t", "e", "s", " ", "f", "o", "u", "n", "d", " ", "(", "E", "m", "p", "t", "y", ")">>
LOW_CONFIDENCE ==
    <<"L", "o", "w", " ", "c", "o", "n", "f", "i", "d", "e", "n", "c", "e", " ", "(">>
SOURCE_MISSING ==
    <<"S", "o", "u", "r", "c", "e", " ", "m", "i", "s", "s", "i", "n", "g">>
\* str(e) of the OSError that os.rename raised
OS_ERROR ==
    <<"[", "E", "r", "r", "n", "o", "]">>

\* f"{conf:.2f}" of conf = count / total: the hundredths, halves rounded up
Fmt2(count, total) ==
    LET h == IF total > 0 THEN (200 * count + total) \div (2 * total) ELSE 0
    IN  ToDec(h \div 100) \o <<".">> \o ZeroPad(ToDec(h % 100), 2)

\* the decision of _process_folder, lines 209-235, on what the scan of the
\* folder returned: a skip reason, or the candidate name to execute
decide_keen(folder_name, scan, threshold, case) ==
    IF scan.dates = <<>>
    THEN [skip |-> TRUE, reason |-> NO_VALID_DATES, candidate |-> <<>>]
    ELSE [skip |-> FALSE, reason |-> <<>>,
          candidate |-> new_name_candidate(most_common(scan.dates).date,
                            clean_base_name(folder_name, case))]
decide(folder_name, scan, threshold, case) ==
    IF scan.dates = <<>>
    THEN [skip |-> TRUE, reason |-> NO_VALID_DATES, candidate |-> <<>>]
    ELSE LET top == most_common(scan.dates)
         IN  IF LowConfidence(top.n, scan.total, threshold)
             THEN [skip |-> TRUE,
                   reason |-> LOW_CONFIDENCE \o Fmt2(top.n, scan.total) \o <<")">>,
                   candidate |-> <<>>]
             ELSE [skip |-> FALSE, reason |-> <<>>,
                   candidate |-> new_name_candidate(top.date,
                                     clean_base_name(folder_name, case))]

(* ------------------------------------------------------------------ *)
(* Ordering of names: sorted() compares strings by code point          *)
(* ------------------------------------------------------------------ *)
CodePoints ==
    <<" ", "\"", "(", ")", "-", ".", "0", "1", "2", "3", "4", "5", "6", "7",
      "8", "9", "A", "B", "a", "b", "e", "g", "i", "n", "t", "v">>
Ord(c) == CHOOSE i \in 1..Len(CodePoints) : CodePoints[i] = c
RECURSIVE StrLess(_, _)
StrLess(s, t) ==
    IF t = <<>> THEN FALSE
    ELSE IF s = <<>> THEN TRUE
    ELSE IF Head(s) = Head(t) THEN StrLess(Tail(s), Tail(t))
    ELSE Ord(Head(s)) < Ord(Head(t))
RECURSIVE Sorted(_)
Sorted(S) ==
    IF S = {} THEN <<>>
    ELSE LET least == CHOOSE x \in S : \A y \in S \ {x} : StrLess(x, y)
         IN  <<least>> \o Sorted(S \ {least})

(* ------------------------------------------------------------------ *)
(* The folders a target root may hold                                  *)
(* ------------------------------------------------------------------ *)
D1 == [y |-> 2020, m |-> 5, d |-> 1]
D2 == [y |-> 2020, m |-> 5, d |-> 2]
Jpg(meta) == [ext |-> ".jpg", thumb |-> FALSE, meta |-> meta]
Mp4(meta) == [ext |-> ".mp4", thumb |-> FALSE, meta |-> meta]
Txt == [ext |-> ".txt", thumb |-> FALSE, meta |-> None]

\* [name, listing] of each directory the root may hold at the start
Candidates ==
    << [name |-> strftime(D1) \o <<" ", "a">>, listing |-> <<Jpg(D1), Jpg(D1)>>],
       [name |-> <<"1", " ", "a">>, listing |-> <<Jpg(None), Txt, Jpg(D1)>>],
       [name |-> strftime(D1) \o <<" ", "A">>, listing |-> <<Mp4(D2)>>],
       [name |-> <<"b">>, listing |-> <<>>],
       [name |-> <<"v", "e", "n", "v">>, listing |-> <<Jpg(D1)>>] >>
FolderIds == 1..Len(Candidates)

\* the confidence thresholds a run may be configured with, as fractions
Thresholds == { [num |-> 1, den |-> 2], [num |-> 3, den |-> 5] }
Cases == {"upper", "lower", "title"}

(* ------------------------------------------------------------------ *)
(* State                                                               *)
(* ------------------------------------------------------------------ *)
VARIABLES
    cfg,          \* live_run, workers, confidence, case
    fs,           \* the directories of the root: base name -> folder id
    fs0,          \* fs when the run was launched
    phase,        \* where run() is
    subdirs,      \* the sorted paths that run() enumerated
    job,          \* per submitted job: pc, final_path, result
    lock,         \* _rename_lock: 0 when free, else the job that holds it
    all_results,  \* the results in the order they were collected
    stats,        \* the tallies of the collection loop
    collected,    \* the futures as_completed has yielded
    report,       \* the JSON report: written, body
    undo,         \* the undo script: written, lines
    undoPos,      \* the lines of the undo script the operator has run
    extDeletes,   \* the deletions other programs have made during the run
    clobbered,    \* the paths a rename of the run has replaced
    history,      \* the earlier runs on this root: live, fs0, results
    probe         \* one folder taken through scan and decision on its own

vars == <<cfg, fs, fs0, phase, subdirs, job, lock, all_results, stats,
          collected, report, undo, undoPos, extDeletes, clobbered, history,
          probe>>

Statuses == {"renamed", "dry_run", "unchanged", "skipped", "error"}
Tallies == Statuses \cup {"crash"}

Listing(id) == Candidates[id].listing
Exists(path) == path \in DOMAIN fs
Jobs == 1..Len(job)
Finished(i) == job[i].pc \in {"done", "raised"}
Running(i) == job[i].pc \in {"scan", "lock", "check", "rename"}

NoResult ==
    [status |-> "none", name |-> <<>>, reason |-> <<>>, new_name |-> <<>>,
     original_path |-> <<>>, full_new_path |-> <<>>]

\* the result dict of _process_folder at line 206, and as lines 240-243
\* fill it after execute returned (status, final_name)
SkippedResult(path, reason) ==
    [status |-> "skipped", name |-> path, reason |-> reason, new_name |-> <<>>,
     original_path |-> path, full_new_path |-> <<>>]
ExecutedResult_source(path, status, final_name) ==
    [status |-> status, name |-> path,
     reason |-> IF status = "error" THEN final_name ELSE <<>>,
     new_name |-> final_name, original_path |-> path,
     full_new_path |-> path]
ExecutedResult(path, status, final_name) ==
    [status |-> status, name |-> path,
     reason |-> IF status = "error" THEN final_name ELSE <<>>,
     new_name |-> final_name, original_path |-> path,
     full_new_path |-> final_name]

ProbeOff ==
    [pc |-> "off", name |-> <<>>, listing |-> <<>>, threshold |-> [num |-> 0, den |-> 1],
     scan |-> [dates |-> <<>>, total |-> 0],
     dec |-> [skip |-> TRUE, reason |-> <<>>, candidate |-> <<>>]]

TypeOK ==
    /\ cfg.live \in BOOLEAN
    /\ cfg.workers >= 1
    /\ phase \in {"Init", "Enumerate", "Collect", "Interrupted", "Aborted",
                  "Report", "Done", "Off"}
    /\ lock \in 0..Len(job)
    /\ collected \subseteq Jobs
    /\ undoPos \in 0..Len(undo.lines)

Init ==
    /\ \E S \in SUBSET FolderIds :
          /\ S # {}
          /\ Cardinality(S) <= MaxFolders
          /\ fs = [n \in {Candidates[id].name : id \in S} |->
                      CHOOSE id \in S : Candidates[id].name = n]
    /\ fs0 = fs
    /\ cfg \in [live : BOOLEAN, workers : 1..MaxWorkers,
                confidence : Thresholds, case : Cases]
    /\ phase = "Init"
    /\ subdirs = <<>>
    /\ job = <<>>
    /\ lock = 0
    /\ all_results = <<>>
    /\ stats = [t \in Tallies |-> 0]
    /\ collected = {}
    /\ report = [written |-> FALSE, body |-> <<>>]
    /\ undo = [written |-> FALSE, lines |-> <<>>]
    /\ undoPos = 0
    /\ extDeletes = 0
    /\ clobbered = {}
    /\ history = <<>>
    /\ probe = ProbeOff

(* ------------------------------------------------------------------ *)
(* run(): enumeration and dispatch                                     *)
(* ------------------------------------------------------------------ *)
\* lines 291-292: the immediate subdirectories that are not ignored, sorted
Enumerate ==
    /\ phase = "Init"
    /\ subdirs' = Sorted({n \in DOMAIN fs : n \notin DEFAULT_IGNORED_DIRS})
    /\ phase' = "Enumerate"
    /\ UNCHANGED <<cfg, fs, fs0, job, lock, all_results, stats, collected,
                   report, undo, undoPos, extDeletes, clobbered, history, probe>>

\* line 299: one future per enumerated folder, queued in that order
Dispatch ==
    /\ phase = "Enumerate"
    /\ job' = [i \in 1..Len(subdirs) |->
                 [pc |-> "queued", target |-> <<>>, final_path |-> <<>>,
                  result |-> NoResult]]
    /\ phase' = "Collect"
    /\ UNCHANGED <<cfg, fs, fs0, subdirs, lock, all_results, stats, collected,
                   report, undo, undoPos, extDeletes, clobbered, history, probe>>

(* ------------------------------------------------------------------ *)
(* A job: _process_folder on a worker thread                           *)
(* ------------------------------------------------------------------ *)
\* The pool runs the queued work items in submission order on at most
\* max_workers threads; leaving the with block (also on an exception) waits
\* for the pool and cancels nothing, so queued items still run.
PoolOpen == phase \in {"Collect", "Interrupted"}
MayStart(i) ==
    /\ PoolOpen
    /\ i \in Jobs
    /\ job[i].pc = "queued"
    /\ \A j \in 1..(i - 1) : job[j].pc # "queued"
    /\ Cardinality({j \in Jobs : Running(j)}) < cfg.workers

\* line 165: if live_mode
live_mode_always(c) == TRUE
live_mode(c) == c.live

\* line 162: os.path.basename(old_path) == safe_name
SameName_never(old_path, safe_name) == FALSE
SameName(old_path, safe_name) == old_path = safe_name

\* line 175: the names the uniqueness check of a dry run finds taken are
\* those os.path.exists finds in the root
DryRunNames_reserved == DOMAIN fs \cup {job[j].final_path : j \in Jobs}
DryRunNames == DOMAIN fs

\* what _process_folder does up to the lock of execute: scan, decide, and
\* lines 158-163 and 174-176 of execute
Outcome(path) ==
    LET scan == scan_folder(IF Exists(path) THEN Listing(fs[path]) ELSE <<>>)
        dec == decide(path, scan, cfg.confidence, cfg.case)
        safe_name == sanitize_name(dec.candidate)
    IN  IF dec.skip
        THEN [pc |-> "done", target |-> <<>>, final_path |-> <<>>,
              result |-> SkippedResult(path, dec.reason)]
        ELSE IF SameName(path, safe_name)
        THEN [pc |-> "done", target |-> safe_name, final_path |-> <<>>,
              result |-> ExecutedResult(path, "unchanged", safe_name)]
        ELSE IF live_mode(cfg)
        THEN [pc |-> "lock", target |-> safe_name, final_path |-> <<>>,
              result |-> NoResult]
        ELSE [pc |-> "done", target |-> safe_name,
              final_path |-> get_unique_path(DryRunNames, safe_name),
              result |-> ExecutedResult(path, "dry_run",
                             get_unique_path(DryRunNames, safe_name))]

\* a worker thread takes the work item
Start(i) ==
    /\ MayStart(i)
    /\ job' = [job EXCEPT ![i].pc = "scan"]
    /\ UNCHANGED <<cfg, fs, fs0, phase, subdirs, lock, all_results, stats,
                   collected, report, undo, undoPos, extDeletes, clobbered, history, probe>>

\* lines 204-235, and execute up to its lock
Process(i) ==
    /\ i \in Jobs
    /\ job[i].pc = "scan"
    /\ job' = [job EXCEPT ![i] = Outcome(subdirs[i])]
    /\ UNCHANGED <<cfg, fs, fs0, phase, subdirs, lock, all_results, stats,
                   collected, report, undo, undoPos, extDeletes, clobbered, history, probe>>

\* with self._rename_lock: ... final_path = self.get_unique_path(...)
LockFree_unlocked == TRUE
LockFree == lock = 0
Acquire(i) ==
    /\ i \in Jobs
    /\ job[i].pc = "lock"
    /\ LockFree
    /\ lock' = i
    /\ job' = [job EXCEPT ![i].pc = "check",
                          ![i].final_path = get_unique_path(DOMAIN fs, job[i].target)]
    /\ UNCHANGED <<cfg, fs, fs0, phase, subdirs, all_results, stats,
                   collected, report, undo, undoPos, extDeletes, clobbered, history, probe>>

\* the lock is released when the with block is left, however it is left
Release_kept(i) == lock
Release(i) == IF lock = i THEN 0 ELSE lock

\* line 169: os.path.exists(old_path)
SourceExists_unchecked(old_path) == TRUE
SourceExists(old_path) == Exists(old_path)

\* line 169
CheckSource(i) ==
    /\ i \in Jobs
    /\ job[i].pc = "check"
    /\ IF SourceExists(subdirs[i])
       THEN /\ job' = [job EXCEPT ![i].pc = "rename"]
            /\ lock' = lock
       ELSE /\ job' = [job EXCEPT ![i].pc = "done",
                          ![i].result = ExecutedResult(subdirs[i], "error",
                                                       SOURCE_MISSING)]
            /\ lock' = Release(i)
    /\ UNCHANGED <<cfg, fs, fs0, phase, subdirs, all_results, stats,
                   collected, report, undo, undoPos, extDeletes, clobbered, history, probe>>

\* os.rename(old, new) of directories: it fails when old is gone or new is a
\* directory that is not empty, it replaces an empty directory new, and it
\* may fail for reasons of its own (permission, device)
RenameCan(old, new) ==
    /\ Exists(old)
    /\ Exists(new) => Listing(fs[new]) = <<>>
Renamed(old, new) ==
    [n \in (DOMAIN fs \ {old}) \cup {new} |-> IF n = new THEN fs[old] ELSE fs[n]]

\* the directories after an os.rename that raised: the call is atomic
FailedRename_partial(old) == [n \in DOMAIN fs \ {old} |-> fs[n]]
FailedRename(old) == fs

\* lines 170-173
Rename(i) ==
    /\ i \in Jobs
    /\ job[i].pc = "rename"
    /\ \/ /\ RenameCan(subdirs[i], job[i].final_path)
          /\ fs' = Renamed(subdirs[i], job[i].final_path)
          /\ clobbered' = IF Exists(job[i].final_path)
                          THEN clobbered \cup {job[i].final_path}
                          ELSE clobbered
          /\ job' = [job EXCEPT ![i].pc = "done",
                        ![i].result = ExecutedResult(subdirs[i], "renamed",
                                                     job[i].final_path)]
       \/ /\ fs' = FailedRename(subdirs[i])
          /\ clobbered' = clobbered
          /\ job' = [job EXCEPT ![i].pc = "done",
                        ![i].result = ExecutedResult(subdirs[i], "error", OS_ERROR)]
    /\ lock' = Release(i)
    /\ UNCHANGED <<cfg, fs0, phase, subdirs, all_results, stats,
                   collected, report, undo, undoPos, extDeletes, history, probe>>

\* an exception that _process_folder does not catch: the future holds it
Fault(i) ==
    /\ i \in Jobs
    /\ job[i].pc \in {"scan", "check", "rename"}
    /\ job' = [job EXCEPT ![i].pc = "raised"]
    /\ lock' = Release(i)
    /\ UNCHANGED <<cfg, fs, fs0, phase, subdirs, all_results, stats,
                   collected, report, undo, undoPos, extDeletes, clobbered, history, probe>>

(* ------------------------------------------------------------------ *)
(* run(): collection, reports                                          *)
(* ------------------------------------------------------------------ *)
\* lines 301-318, one iteration.  as_completed yields the futures that had
\* finished when it was called in no particular order and the others as they
\* finish, so any finished future may be the next one.
\* lines 303-305 when fut.result() returns, lines 316-318 when it raises
Gathered_unskipped(i) ==
    IF job[i].pc = "done" /\ job[i].result.status # "skipped"
    THEN Append(all_results, job[i].result)
    ELSE all_results
Gathered(i) ==
    IF job[i].pc = "done" THEN Append(all_results, job[i].result)
    ELSE all_results
Tally_uncounted(i) ==
    IF job[i].pc = "done"
    THEN [stats EXCEPT ![job[i].result.status] = @ + 1]
    ELSE stats
Tally(i) ==
    IF job[i].pc = "done"
    THEN [stats EXCEPT ![job[i].result.status] = @ + 1]
    ELSE [stats EXCEPT !["crash"] = @ + 1]

Collect(i) ==
    /\ phase = "Collect"
    /\ i \in Jobs \ collected
    /\ Finished(i)
    /\ collected' = collected \cup {i}
    /\ all_results' = Gathered(i)
    /\ stats' = Tally(i)
    /\ UNCHANGED <<cfg, fs, fs0, phase, subdirs, job, lock, report, undo,
                   undoPos, extDeletes, clobbered, history, probe>>

\* item['...'].replace('"', '\\"') and the line f'mv "{new}" "{old}"'
RECURSIVE Quote(_)
Quote(s) ==
    IF s = <<>> THEN <<>>
    ELSE IF Head(s) = "\"" THEN <<"\\", "\"">> \o Quote(Tail(s))
    ELSE <<Head(s)>> \o Quote(Tail(s))
UndoLine(item) ==
    [src |-> Quote(item.full_new_path), dst |-> Quote(item.original_path)]
UndoLines_planned(results) ==
    LET renamed_items ==
            SelectSeq(results, LAMBDA r : r.status \in {"renamed", "dry_run"})
    IN  [k \in 1..Len(renamed_items) |-> UndoLine(renamed_items[k])]
UndoLines(results) ==
    LET renamed_items == SelectSeq(results, LAMBDA r : r.status = "renamed")
    IN  [k \in 1..Len(renamed_items) |-> UndoLine(renamed_items[k])]

\* line 301: the for loop over as_completed(futures) ends when it has
\* yielded every future
LoopThrough_first == collected # {}
LoopThrough == collected = Jobs

\* generate_reports, lines 247-276, called at line 320 once the with block
\* of the pool is left
Report ==
    /\ phase = "Collect"
    /\ LoopThrough
    /\ report' = [written |-> TRUE, body |-> all_results]
    /\ undo' = IF UndoLines(all_results) # <<>>
               THEN [written |-> TRUE, lines |-> UndoLines(all_results)]
               ELSE undo
    /\ phase' = "Report"
    /\ UNCHANGED <<cfg, fs, fs0, subdirs, job, lock, all_results, stats,
                   collected, undoPos, extDeletes, clobbered, history, probe>>

\* lines 322-341: the summary is printed and run() returns
Finish ==
    /\ phase = "Report"
    /\ phase' = "Done"
    /\ UNCHANGED <<cfg, fs, fs0, subdirs, job, lock, all_results, stats,
                   collected, report, undo, undoPos, extDeletes, clobbered, history, probe>>

\* KeyboardInterrupt in the main thread while it waits in as_completed: it
\* is no Exception, so line 316 does not catch it and the with block is left
Interrupt ==
    /\ phase = "Collect"
    /\ collected # Jobs
    /\ phase' = "Interrupted"
    /\ UNCHANGED <<cfg, fs, fs0, subdirs, job, lock, all_results, stats,
                   collected, report, undo, undoPos, extDeletes, clobbered, history, probe>>

\* the exit of the with block has waited for every work item; the
\* interrupt leaves run() before line 320
Abort ==
    /\ phase = "Interrupted"
    /\ \A i \in Jobs : Finished(i)
    /\ phase' = "Aborted"
    /\ UNCHANGED <<cfg, fs, fs0, subdirs, job, lock, all_results, stats,
                   collected, report, undo, undoPos, extDeletes, clobbered, history, probe>>

(* ------------------------------------------------------------------ *)
(* The environment                                                     *)
(* ------------------------------------------------------------------ *)
\* another program removes a directory of the root while the run is on
ExternalDelete(n) ==
    /\ phase \in {"Enumerate", "Collect", "Interrupted"}
    /\ extDeletes < MaxExternal
    /\ n \in DOMAIN fs
    /\ fs' = [m \in DOMAIN fs \ {n} |-> fs[m]]
    /\ extDeletes' = extDeletes + 1
    /\ UNCHANGED <<cfg, fs0, phase, subdirs, job, lock, all_results, stats,
                   collected, report, undo, undoPos, clobbered, history, probe>>

\* the shell reads a double-quoted word: \" stands for ", \\ for \
RECURSIVE Unquote(_)
Unquote(s) ==
    IF s = <<>> THEN <<>>
    ELSE IF Head(s) = "\\" /\ Len(s) >= 2 /\ s[2] \in {"\"", "\\"}
    THEN <<s[2]>> \o Unquote(Tail(Tail(s)))
    ELSE <<Head(s)>> \o Unquote(Tail(s))

\* mv SRC DST on directories of the root: without SRC it fails; when DST is
\* a directory SRC is moved into it and leaves the root; else SRC is renamed
mv(dirs, src, dst) ==
    IF src \notin DOMAIN dirs THEN dirs
    ELSE IF dst \in DOMAIN dirs THEN [n \in DOMAIN dirs \ {src} |-> dirs[n]]
    ELSE [n \in (DOMAIN dirs \ {src}) \cup {dst} |->
             IF n = dst THEN dirs[src] ELSE dirs[n]]

\* the operator runs the undo script of a finished run, line after line
RunUndoLine ==
    /\ phase = "Done"
    /\ undo.written
    /\ undoPos < Len(undo.lines)
    /\ fs' = mv(fs, Unquote(undo.lines[undoPos + 1].src),
                    Unquote(undo.lines[undoPos + 1].dst))
    /\ undoPos' = undoPos + 1
    /\ UNCHANGED <<cfg, fs0, phase, subdirs, job, lock, all_results, stats,
                   collected, report, undo, extDeletes, clobbered, history, probe>>

Next ==
    \/ Enumerate
    \/ Dispatch
    \/ \E i \in Jobs : Start(i)
    \/ \E i \in Jobs : Process(i)
    \/ \E i \in Jobs : Acquire(i)
    \/ \E i \in Jobs : CheckSource(i)
    \/ \E i \in Jobs : Rename(i)
    \/ \E i \in Jobs : Fault(i)
    \/ \E i \in Jobs : Collect(i)
    \/ Report
    \/ Finish
    \/ Interrupt
    \/ Abort
    \/ \E n \in DOMAIN fs : ExternalDelete(n)
    \/ RunUndoLine

Spec == Init /\ [][Next]_vars

\* the steps of the main thread: run() and its collection loop
MainStep ==
    \/ Enumerate
    \/ Dispatch
    \/ \E i \in Jobs : Collect(i)
    \/ Report
    \/ Finish
    \/ Abort
\* the steps of the worker threads but for the scan
WorkerStep ==
    \/ \E i \in Jobs : Start(i)
    \/ \E i \in Jobs : Acquire(i)
    \/ \E i \in Jobs : CheckSource(i)
    \/ \E i \in Jobs : Rename(i)
\* a worker thread is in its scan: Process is enabled
ScanPending == \E i \in Jobs : job[i].pc = "scan"

\* the run with its threads scheduled: while the main thread can take a
\* step it takes one, and so do the worker threads.  The metadata
\* libraries return (a parse that never ends is not modelled).  What the
\* environment does (a fault inside a job, a deletion by another program,
\* the interrupt, the operator running the undo script) is under no
\* obligation.  The last conjunct is WF_vars(\E i \in Jobs : Process(i))
\* with the enabling condition of Process written out as ScanPending.
SpecFair ==
    /\ Spec
    /\ WF_vars(MainStep)
    /\ WF_vars(WorkerStep)
    /\ ([]<>~ScanPending \/ []<><<\E i \in Jobs : Process(i)>>_vars)

(* ------------------------------------------------------------------ *)
(* A dry run followed by another run on the same root                  *)
(* ------------------------------------------------------------------ *)
Range(seq) == {seq[k] : k \in 1..Len(seq)}

\* main() is started again on the same path with the same arguments but
\* for --live and --workers: a new organizer is built and nothing of the
\* last run is kept in memory
Relaunch ==
    /\ phase = "Done"
    /\ ~cfg.live
    /\ Len(history) + 1 < MaxRuns
    /\ history' = Append(history, [live |-> cfg.live, fs0 |-> fs0,
                                   results |-> Range(all_results)])
    /\ \E live \in BOOLEAN, workers \in 1..MaxWorkers :
          cfg' = [cfg EXCEPT !.live = live, !.workers = workers]
    /\ fs0' = fs
    /\ phase' = "Init"
    /\ subdirs' = <<>>
    /\ job' = <<>>
    /\ lock' = 0
    /\ all_results' = <<>>
    /\ stats' = [t \in Tallies |-> 0]
    /\ collected' = {}
    /\ report' = [written |-> FALSE, body |-> <<>>]
    /\ extDeletes' = 0
    /\ clobbered' = {}
    /\ UNCHANGED <<fs, undo, undoPos, probe>>

NextRuns ==
    \/ Enumerate
    \/ Dispatch
    \/ \E i \in Jobs : Start(i)
    \/ \E i \in Jobs : Process(i)
    \/ \E i \in Jobs : Acquire(i)
    \/ \E i \in Jobs : CheckSource(i)
    \/ \E i \in Jobs : Rename(i)
    \/ \E i \in Jobs : Collect(i)
    \/ Report
    \/ Finish
    \/ Relaunch

SpecRuns == Init /\ [][NextRuns]_vars

(* ------------------------------------------------------------------ *)
(* One folder through scan_folder and the decision, for every listing  *)
(* and threshold of the bounds                                         *)
(* ------------------------------------------------------------------ *)
\* the date a container holds whose creation time was never set (the zero
\* of the QuickTime clock), far below MIN_YEAR
D0 == [y |-> 1904, m |-> 1, d |-> 1]
ProbeFiles == {Jpg(D1), Jpg(D2), Jpg(None), Mp4(D1), Jpg(D0), Mp4(D0)}
ProbeListings == UNION {[1..n -> ProbeFiles] : n \in 0..MaxFiles}
ProbeThresholds ==
    {[num |-> n, den |-> d] : n \in 0..MaxDen, d \in 1..MaxDen}
        \cap {t \in [num : 0..MaxDen, den : 1..MaxDen] : t.num <= t.den}
\* the names of the folder: one with letters, one of digits only
ProbeNames == { <<"1", " ", "a">>, <<"1">> }

InitProbe ==
    /\ probe \in [pc : {"scan"}, name : ProbeNames, listing : ProbeListings,
                  threshold : ProbeThresholds,
                  scan : {ProbeOff.scan}, dec : {ProbeOff.dec}]
    /\ cfg = [live |-> FALSE, workers |-> 1,
              confidence |-> [num |-> 3, den |-> 5], case |-> "upper"]
    /\ fs = <<>>
    /\ fs0 = <<>>
    /\ phase = "Off"
    /\ subdirs = <<>>
    /\ job = <<>>
    /\ lock = 0
    /\ all_results = <<>>
    /\ stats = [t \in Tallies |-> 0]
    /\ collected = {}
    /\ report = [written |-> FALSE, body |-> <<>>]
    /\ undo = [written |-> FALSE, lines |-> <<>>]
    /\ undoPos = 0
    /\ extDeletes = 0
    /\ clobbered = {}
    /\ history = <<>>

\* line 209
ProbeScan ==
    /\ probe.pc = "scan"
    /\ probe' = [probe EXCEPT !.pc = "decide", !.scan = scan_folder(probe.listing)]
    /\ UNCHANGED <<cfg, fs, fs0, phase, subdirs, job, lock, all_results, stats,
                   collected, report, undo, undoPos, extDeletes, clobbered,
                   history>>

\* lines 210-235
ProbeDecide ==
    /\ probe.pc = "decide"
    /\ probe' = [probe EXCEPT !.pc = "done",
                    !.dec = decide(probe.name, probe.scan, probe.threshold, cfg.case)]
    /\ UNCHANGED <<cfg, fs, fs0, phase, subdirs, job, lock, all_results, stats,
                   collected, report, undo, undoPos, extDeletes, clobbered,
                   history>>

NextProbe == ProbeScan \/ ProbeDecide

SpecProbe == InitProbe /\ [][NextProbe]_vars

(* ------------------------------------------------------------------ *)
(* scan_folder, one iteration of its loop at a time, on listings long   *)
(* enough to reach the sample cap                                       *)
(* ------------------------------------------------------------------ *)
\* n files of the same kind
Bulk(f, n) == [j \in 1..n |-> f]
Tails == UNION {[1..n -> ProbeFiles] : n \in 0..MaxTail}
\* a run of dated images, none or about as many as the cap, and then a few
\* files of any kind
ScanListings ==
    {Bulk(Jpg(D1), n) \o t : n \in {0} \cup ((SAMPLE_SIZE - 1)..MaxBulk),
                             t \in Tails}

\* probe in this specification: the locals of scan_folder.  w is the
\* number of file names the walk has taken from the listing, k the number
\* of files the for loop of line 87 has taken from files_found.
InitScan ==
    /\ probe \in [pc : {"walk"}, listing : ScanListings, w : {0},
                  files_found : {<<>>}, k : {0}, date_counter : {<<>>}, scanned_count : {0},
                  valid_dates_found : {0},
                  ret : {[dates |-> <<>>, total |-> 0]}]
    /\ cfg = [live |-> FALSE, workers |-> 1,
              confidence |-> [num |-> 3, den |-> 5], case |-> "upper"]
    /\ fs = <<>>
    /\ fs0 = <<>>
    /\ phase = "Off"
    /\ subdirs = <<>>
    /\ job = <<>>
    /\ lock = 0
    /\ all_results = <<>>
    /\ stats = [t \in Tallies |-> 0]
    /\ collected = {}
    /\ report = [written |-> FALSE, body |-> <<>>]
    /\ undo = [written |-> FALSE, lines |-> <<>>]
    /\ undoPos = 0
    /\ extDeletes = 0
    /\ clobbered = {}
    /\ history = <<>>

\* lines 72-80: the walk takes one file name
ScanWalk ==
    /\ probe.pc = "walk"
    /\ probe.w < Len(probe.listing)
    /\ probe' = [probe EXCEPT
                    !.w = @ + 1,
                    !.files_found = file_found(@, probe.listing[probe.w + 1])]
    /\ UNCHANGED <<cfg, fs, fs0, phase, subdirs, job, lock, all_results, stats,
                   collected, report, undo, undoPos, extDeletes, clobbered,
                   history>>

\* lines 82-85: the walk is through; without media files the scan returns
ScanWalked ==
    /\ probe.pc = "walk"
    /\ probe.w = Len(probe.listing)
    /\ probe' = IF probe.files_found = <<>>
                THEN [probe EXCEPT !.pc = "returned",
                                   !.ret = [dates |-> <<>>, total |-> 0]]
                ELSE [probe EXCEPT !.pc = "loop"]
    /\ UNCHANGED <<cfg, fs, fs0, phase, subdirs, job, lock, all_results, stats,
                   collected, report, undo, undoPos, extDeletes, clobbered,
                   history>>

\* lines 87-94: one iteration that does not break
ScanNext ==
    /\ probe.pc = "loop"
    /\ probe.k < Len(probe.files_found)
    /\ ~CapReached(probe.valid_dates_found)
    /\ LET date_obj == get_date(probe.files_found[probe.k + 1])
       IN  probe' = IF date_obj # None
                    THEN [probe EXCEPT
                            !.k = @ + 1,
                            !.scanned_count = @ + 1,
                            !.date_counter = CounterAdd(@, strftime(date_obj)),
                            !.valid_dates_found = @ + 1]
                    ELSE [probe EXCEPT !.k = @ + 1, !.scanned_count = @ + 1]
    /\ UNCHANGED <<cfg, fs, fs0, phase, subdirs, job, lock, all_results, stats,
                   collected, report, undo, undoPos, extDeletes, clobbered,
                   history>>

\* the loop ends, by the break of line 88 or with the last file; line 96
ScanReturn ==
    /\ probe.pc = "loop"
    /\ probe.k = Len(probe.files_found) \/ CapReached(probe.valid_dates_found)
    /\ probe' = [probe EXCEPT !.pc = "returned",
                    !.ret = [dates |-> probe.date_counter,
                             total |-> probe.scanned_count]]
    /\ UNCHANGED <<cfg, fs, fs0, phase, subdirs, job, lock, all_results, stats,
                   collected, report, undo, undoPos, extDeletes, clobbered,
                   history>>

NextScan == ScanWalk \/ ScanWalked \/ ScanNext \/ ScanReturn

SpecScan == InitScan /\ [][NextScan]_vars

(* ------------------------------------------------------------------ *)
(* get_unique_path, one test of os.path.exists at a time, for every set *)
(* of names that exist among a base name and its suffixed forms         *)
(* ------------------------------------------------------------------ *)
UniqueBases == { <<"a">>, Suffixed(<<"a">>, 1) }
\* the names that may exist: the bases, the suffixed forms of the first up
\* to " (MaxTaken + 1)", and the first suffixed form of the second
UniqueNames ==
    UniqueBases \cup {Suffixed(<<"a">>, n) : n \in 1..(MaxTaken + 1)}
        \cup {Suffixed(Suffixed(<<"a">>, 1), 1)}

\* probe in this specification: the argument and the locals of
\* get_unique_path, and the names for which os.path.exists is true
InitUnique ==
    /\ probe \in [pc : {"called"}, exists : SUBSET UniqueNames,
                  base_path : UniqueBases, counter : {0}, ret : {<<>>}]
    /\ cfg = [live |-> FALSE, workers |-> 1,
              confidence |-> [num |-> 3, den |-> 5], case |-> "upper"]
    /\ fs = <<>>
    /\ fs0 = <<>>
    /\ phase = "Off"
    /\ subdirs = <<>>
    /\ job = <<>>
    /\ lock = 0
    /\ all_results = <<>>
    /\ stats = [t \in Tallies |-> 0]
    /\ collected = {}
    /\ report = [written |-> FALSE, body |-> <<>>]
    /\ undo = [written |-> FALSE, lines |-> <<>>]
    /\ undoPos = 0
    /\ extDeletes = 0
    /\ clobbered = {}
    /\ history = <<>>

\* lines 150-151
UniqueFirst ==
    /\ probe.pc = "called"
    /\ probe' = IF probe.base_path \notin probe.exists
                THEN [probe EXCEPT !.pc = "returned", !.ret = probe.base_path]
                ELSE [probe EXCEPT !.pc = "loop", !.counter = 1]
    /\ UNCHANGED <<cfg, fs, fs0, phase, subdirs, job, lock, all_results, stats,
                   collected, report, undo, undoPos, extDeletes, clobbered,
                   history>>

\* lines 152-155, one iteration
UniqueNext ==
    /\ probe.pc = "loop"
    /\ LET new_path == Suffixed(probe.base_path, probe.counter)
       IN  probe' = IF new_path \notin probe.exists
                    THEN [probe EXCEPT !.pc = "returned", !.ret = new_path]
                    ELSE [probe EXCEPT !.counter = @ + 1]
    /\ UNCHANGED <<cfg, fs, fs0, phase, subdirs, job, lock, all_results, stats,
                   collected, report, undo, undoPos, extDeletes, clobbered,
                   history>>

NextUnique == UniqueFirst \/ UniqueNext

SpecUnique == InitUnique /\ [][NextUnique]_vars

\* the thread that called get_unique_path keeps running
SpecUniqueFair == SpecUnique /\ WF_vars(NextUnique)

(* ------------------------------------------------------------------ *)
(* exif-date-organizer.py: the earlier program of the repository.  It   *)
(* has no rename lock, no sample cap, no year filter and no report      *)
(* files; get_unique_path is the same function in both programs.        *)
(* ------------------------------------------------------------------ *)
\* the members of the ignore set that the folder names of the model can spell
IGNORED_DIRS == { <<"v", "e", "n", "v">> }

TIADA_METADATA ==
    <<"T", "i", "a", "d", "a", " ", "m", "e", "t", "a", "d", "a", "t", "a">>
LOW_CONFIDENCE_DATE ==
    <<"L", "o", "w", " ", "C", "o", "n", "f", "i", "d", "e", "n", "c", "e", " ", "(">>

\* str.capitalize()
StrCapitalize(s) ==
    [i \in 1..Len(s) |-> IF i = 1 THEN CharUpper(s[i]) ELSE CharLower(s[i])]

\* an unparsable or missing date is None; a parsed one is kept whatever its
\* year
get_date_from_image(f) == f.meta
get_date_from_video(f) == IF ~HACHOIR_AVAILABLE THEN None ELSE f.meta

\* lines 201-206: the media files in the order of the walk
all_files(listing) ==
    SelectSeq(listing, LAMBDA f : ~f.thumb /\ f.ext \in IMAGE_EXT \cup VIDEO_EXT)

\* the loop of lines 211-220 over the files that are left
RECURSIVE collect_loop(_, _, _)
collect_loop(files, date_counter, total_files) ==
    IF files = <<>> THEN [dates |-> date_counter, total |-> total_files]
    ELSE LET f == Head(files)
             date_obj == IF f.ext \in IMAGE_EXT THEN get_date_from_image(f)
                         ELSE get_date_from_video(f)
         IN  IF date_obj # None
             THEN collect_loop(Tail(files),
                               CounterAdd(date_counter, strftime(date_obj)),
                               total_files + 1)
             ELSE collect_loop(Tail(files), date_counter, total_files + 1)

\* (None, 0) without media files, else (date_counter, total_files)
collect_dates(listing) ==
    IF all_files(listing) = <<>> THEN [dates |-> <<>>, total |-> 0]
    ELSE collect_loop(all_files(listing), <<>>, 0)

clean_folder_name_regex(foldername, case_type) ==
    LET cleaned == Strip(StripNoise(foldername))
    IN  IF cleaned = <<>> THEN foldername
        ELSE IF case_type = "upper" THEN StrUpper(cleaned)
        ELSE IF case_type = "lower" THEN StrLower(cleaned)
        ELSE IF case_type = "title" THEN StrTitle(cleaned)
        ELSE IF case_type = "sentence" THEN StrCapitalize(cleaned)
        ELSE StrTitle(cleaned)

\* the result dict of process_single_folder
DateResult(folder_name, status, reason, new_name) ==
    [status |-> status, name |-> folder_name, reason |-> reason,
     new_name |-> new_name]

\* process_single_folder, lines 238-268, without an API key: scan, decide,
\* and the comparison with the folder's name
DateOutcome(path) ==
    LET date_stats == collect_dates(IF Exists(path) THEN Listing(fs[path]) ELSE <<>>)
        top == most_common(date_stats.dates)
        new_name == top.date \o <<" ">> \o clean_folder_name_regex(path, cfg.case)
    IN  IF date_stats.dates = <<>>
        THEN [pc |-> "done", target |-> <<>>, final_path |-> <<>>,
              result |-> DateResult(path, "skipped", TIADA_METADATA, <<>>)]
        ELSE IF LowConfidence(top.n, date_stats.total, cfg.confidence)
        THEN [pc |-> "done", target |-> <<>>, final_path |-> <<>>,
              result |-> DateResult(path, "skipped",
                             LOW_CONFIDENCE_DATE \o Fmt2(top.n, date_stats.total)
                                 \o <<")">>, <<>>)]
        ELSE IF new_name = path
        THEN [pc |-> "done", target |-> new_name, final_path |-> <<>>,
              result |-> DateResult(path, "unchanged", <<>>, <<>>)]
        ELSE [pc |-> "check", target |-> new_name, final_path |-> <<>>,
              result |-> DateResult(path, "none", <<>>, <<>>)]

\* lines 311-312
DateEnumerate ==
    /\ phase = "Init"
    /\ subdirs' = Sorted({n \in DOMAIN fs : n \notin IGNORED_DIRS})
    /\ phase' = "Enumerate"
    /\ UNCHANGED <<cfg, fs, fs0, job, lock, all_results, stats, collected,
                   report, undo, undoPos, extDeletes, clobbered, history, probe>>

\* line 327
DateDispatch ==
    /\ phase = "Enumerate"
    /\ job' = [i \in 1..Len(subdirs) |->
                 [pc |-> "queued", target |-> <<>>, final_path |-> <<>>,
                  result |-> DateResult(subdirs[i], "none", <<>>, <<>>)]]
    /\ phase' = "Collect"
    /\ UNCHANGED <<cfg, fs, fs0, subdirs, lock, all_results, stats, collected,
                   report, undo, undoPos, extDeletes, clobbered, history, probe>>

\* lines 238-268
DateProcess(i) ==
    /\ i \in Jobs
    /\ job[i].pc = "scan"
    /\ job' = [job EXCEPT ![i] = DateOutcome(subdirs[i])]
    /\ UNCHANGED <<cfg, fs, fs0, phase, subdirs, lock, all_results, stats,
                   collected, report, undo, undoPos, extDeletes, clobbered, history, probe>>

\* lines 274-277 and 289-293: get_unique_path, called outside any lock; a
\* dry run reports 'renamed' with the proposed name
DateUnique(i) ==
    /\ i \in Jobs
    /\ job[i].pc = "check"
    /\ job' = [job EXCEPT
                 ![i].final_path = get_unique_path(DOMAIN fs, job[i].target),
                 ![i].pc = IF cfg.live THEN "rename" ELSE "done",
                 ![i].result = IF cfg.live THEN @
                               ELSE DateResult(subdirs[i], "renamed", <<>>,
                                               job[i].target)]
    /\ UNCHANGED <<cfg, fs, fs0, phase, subdirs, lock, all_results, stats,
                   collected, report, undo, undoPos, extDeletes, clobbered, history, probe>>

\* lines 278-288: os.rename and the except clause
DateRename(i) ==
    /\ i \in Jobs
    /\ job[i].pc = "rename"
    /\ \/ /\ RenameCan(subdirs[i], job[i].final_path)
          /\ fs' = Renamed(subdirs[i], job[i].final_path)
          /\ clobbered' = IF Exists(job[i].final_path)
                          THEN clobbered \cup {job[i].final_path}
                          ELSE clobbered
          /\ job' = [job EXCEPT ![i].pc = "done",
                        ![i].result = DateResult(subdirs[i], "renamed", <<>>,
                                                 job[i].target)]
       \/ /\ fs' = FailedRename(subdirs[i])
          /\ clobbered' = clobbered
          /\ job' = [job EXCEPT ![i].pc = "done",
                        ![i].result = DateResult(subdirs[i], "error", OS_ERROR,
                                                 <<>>)]
    /\ UNCHANGED <<cfg, fs0, phase, subdirs, lock, all_results, stats,
                   collected, report, undo, undoPos, extDeletes, history, probe>>

\* lines 330-342, one iteration: the result joins the list of its status
DateCollect(i) ==
    /\ phase = "Collect"
    /\ i \in Jobs \ collected
    /\ Finished(i)
    /\ collected' = collected \cup {i}
    /\ all_results' = Append(all_results, job[i].result)
    /\ stats' = [stats EXCEPT ![job[i].result.status] = @ + 1]
    /\ UNCHANGED <<cfg, fs, fs0, phase, subdirs, job, lock, report, undo,
                   undoPos, extDeletes, clobbered, history, probe>>

\* lines 347-368: the final report is printed
DateFinish ==
    /\ phase = "Collect"
    /\ collected = Jobs
    /\ phase' = "Done"
    /\ UNCHANGED <<cfg, fs, fs0, subdirs, job, lock, all_results, stats,
                   collected, report, undo, undoPos, extDeletes, clobbered, history, probe>>

InitDate == Init

NextDate ==
    \/ DateEnumerate
    \/ DateDispatch
    \/ \E i \in Jobs : Start(i)
    \/ \E i \in Jobs : DateProcess(i)
    \/ \E i \in Jobs : DateUnique(i)
    \/ \E i \in Jobs : DateRename(i)
    \/ \E i \in Jobs : DateCollect(i)
    \/ DateFinish

SpecDate == InitDate /\ [][NextDate]_vars

(* ------------------------------------------------------------------ *)
(* Properties                                                          *)
(* ------------------------------------------------------------------ *)
Done(i) == job[i].pc = "done"
RenamedJob(i) == Done(i) /\ job[i].result.status = "renamed"
IsSuffixOf(path, base) ==
    \/ path = base
    \/ \E n \in 1..(Len(job) + Cardinality(DOMAIN fs0)) : path = Suffixed(base, n)
SumStats == stats["renamed"] + stats["dry_run"] + stats["unchanged"]
                + stats["skipped"] + stats["error"] + stats["crash"]
RecordsOf(body, path) == {k \in 1..Len(body) : body[k].original_path = path}

\* the folder of job i is in the root under the name its result gives
FinalAt(i) ==
    /\ Exists(job[i].result.new_name)
    /\ fs[job[i].result.new_name] = fs0[subdirs[i]]

\* C1: in a live run, no rename of the run has a target that exists when the
\* rename is made (from the uniqueness check under the lock to the rename
\* the chosen path stays free, and nothing is replaced); every renamed
\* folder has the proposed name or the proposed name plus " (n)"; and, as
\* long as no other program has removed a directory, every renamed folder
\* is at its final path and the folders renamed with the same sanitized
\* proposed name have pairwise distinct final names.
C1_UniqueNoOverwrite ==
    cfg.live =>
        /\ clobbered = {}
        /\ \A i \in Jobs :
              job[i].pc \in {"check", "rename"} => ~Exists(job[i].final_path)
        /\ \A i \in Jobs :
              RenamedJob(i) => IsSuffixOf(job[i].result.new_name, job[i].target)
        /\ (extDeletes = 0 /\ undoPos = 0) =>
              /\ \A i \in Jobs : RenamedJob(i) => FinalAt(i)
              /\ \A i, j \in Jobs :
                    (i # j /\ RenamedJob(i) /\ RenamedJob(j)
                           /\ job[i].target = job[j].target)
                        => job[i].result.new_name # job[j].result.new_name

\* two folders of one live run were renamed with the same proposed name
C1_Witness ==
    /\ cfg.live
    /\ \E i, j \in Jobs :
          /\ i # j /\ RenamedJob(i) /\ RenamedJob(j)
          /\ job[i].target = job[j].target
          /\ job[i].result.new_name = job[i].target
          /\ job[j].result.new_name = Suffixed(job[j].target, 1)
          /\ Exists(job[i].result.new_name) /\ Exists(job[j].result.new_name)

\* C2: after a live run that renamed folders and that nothing else disturbed,
\* running the lines of the undo script in the order they were written
\* leaves the root with the directories it had before the run.
C2_RoundTrip ==
    (/\ phase = "Done" /\ cfg.live /\ undo.written
     /\ undoPos = Len(undo.lines) /\ extDeletes = 0)
        => fs = fs0

\* C3: in a dry run the directories of the root are those of the start of
\* the run but for what other programs deleted, no job has a rename in
\* progress or made, and no result or tally is 'renamed'.
C3_DryRunFrame ==
    ~cfg.live =>
        /\ DOMAIN fs \subseteq DOMAIN fs0
        /\ \A n \in DOMAIN fs : fs[n] = fs0[n]
        /\ Cardinality(DOMAIN fs0 \ DOMAIN fs) = extDeletes
        /\ clobbered = {}
        /\ lock = 0
        /\ \A i \in Jobs : job[i].pc \notin {"lock", "check", "rename"}
        /\ \A i \in Jobs : job[i].result.status # "renamed"
        /\ stats["renamed"] = 0
        /\ ~undo.written

\* a dry run has finished with a folder it would have renamed
C3_Witness ==
    /\ ~cfg.live /\ phase = "Done" /\ extDeletes = 0
    /\ \E k \in 1..Len(report.body) :
          /\ report.body[k].status = "dry_run"
          /\ ~Exists(report.body[k].new_name)
          /\ Exists(report.body[k].original_path)

\* C4: when a live run follows a dry run on the same directories with the
\* same configuration, every folder the live run renamed has the name the
\* dry run reported for it.
C4_DryEqualsLive ==
    (/\ phase = "Done" /\ cfg.live /\ history # <<>>
     /\ ~history[Len(history)].live /\ history[Len(history)].fs0 = fs0)
        => \A k \in 1..Len(all_results) : \A r \in history[Len(history)].results :
              (/\ r.original_path = all_results[k].original_path
               /\ r.status = "dry_run"
               /\ all_results[k].status = "renamed")
                  => all_results[k].new_name = r.new_name

\* C5: once the interrupt has reached the run, a job that has not started
\* stays unstarted.
C5_NoStartAfterInterrupt ==
    [][phase = "Interrupted" =>
          \A i \in Jobs : job[i].pc = "queued" => job'[i].pc = "queued"]_vars

\* some step of the run can be taken: a job can start or go on, or the
\* collection loop has a finished future to take or is through
CanStep ==
    \/ \E i \in Jobs :
          \/ MayStart(i)
          \/ job[i].pc \in {"scan", "check", "rename"}
          \/ job[i].pc = "lock" /\ lock = 0
          \/ Finished(i) /\ i \notin collected
    \/ collected = Jobs

\* C6: every collected future that raised is one 'crash' tally and the
\* tallies sum to the number of collected futures; a job that raised holds
\* no lock and while the run collects some step of the run can be taken; the
\* report is written only when every job has finished and was collected,
\* and then the tallies sum to the number of enumerated folders.
C6_FaultContained ==
    /\ stats["crash"] = Cardinality({i \in collected : job[i].pc = "raised"})
    /\ SumStats = Cardinality(collected)
    /\ \A i \in Jobs : job[i].pc = "raised" => lock # i
    /\ phase = "Collect" => CanStep
    /\ phase \in {"Report", "Done"} =>
          /\ report.written
          /\ collected = Jobs
          /\ \A i \in Jobs : Finished(i)
          /\ SumStats = Len(subdirs)

\* a run has finished in which one job raised and another renamed its folder
C6_Witness ==
    /\ phase = "Done" /\ report.written
    /\ stats["crash"] = 1 /\ stats["renamed"] = 1
    /\ \E i, j \in Jobs : job[i].pc = "raised" /\ RenamedJob(j)

\* C7 as stated: the report holds exactly one record for each enumerated
\* folder.
C7_OneRecordEach ==
    report.written =>
        \A i \in 1..Len(subdirs) :
            Cardinality(RecordsOf(report.body, subdirs[i])) = 1

\* C7 as amended: when the report is written every job has finished, and
\* the report holds exactly one record for each enumerated folder whose job
\* returned and none for a folder whose job raised.
C7_OneRecordPerReturnedJob ==
    report.written =>
        /\ \A i \in Jobs : Finished(i)
        /\ Len(job) = Len(subdirs)
        /\ Len(report.body) = Cardinality({i \in Jobs : Done(i)})
        /\ \A i \in Jobs :
              /\ Done(i) =>
                    /\ Cardinality(RecordsOf(report.body, subdirs[i])) = 1
                    /\ \E k \in 1..Len(report.body) : report.body[k] = job[i].result
              /\ job[i].pc = "raised" => RecordsOf(report.body, subdirs[i]) = {}

\* a report of two records, written in the other order than the folders
\* were enumerated
C7_Witness ==
    /\ report.written /\ Len(subdirs) = 2 /\ Len(report.body) = 2
    /\ report.body[1].original_path = subdirs[2]
    /\ report.body[2].original_path = subdirs[1]

\* a step of a job from its rename to a result that is not 'renamed', and
\* what a written report holds of the failed jobs
C8_Step ==
    \A i \in Jobs :
        (/\ job[i].pc = "rename" /\ job'[i].pc = "done"
         /\ job'[i].result.status # "renamed")
            => /\ fs' = fs
               /\ job'[i].result.status = "error"
               /\ job'[i].result.reason = OS_ERROR
               /\ job'[i].result.new_name = OS_ERROR
               /\ lock' # i
C8_Reported ==
    report.written =>
        \A i \in Jobs :
            (Done(i) /\ job[i].result.status = "error")
                => /\ collected = Jobs
                   /\ \E k \in 1..Len(report.body) : report.body[k] = job[i].result
\* C8: a rename that fails leaves the directories as they were, returns
\* 'error' with the message of the failure and frees the lock; and a run
\* that has reported has collected every job, the failed one with its
\* 'error' record.
C8_RenameFailure == [][C8_Step]_vars /\ []C8_Reported

\* a run has reported a failed rename beside a rename that was made, the
\* folder of the failed one still at its path
C8_Witness ==
    /\ phase = "Done" /\ cfg.live
    /\ \E i, j \in Jobs :
          /\ Done(i) /\ job[i].result.status = "error"
          /\ job[i].result.reason = OS_ERROR
          /\ Exists(subdirs[i]) /\ ~Exists(job[i].final_path)
          /\ RenamedJob(j)

\* a step of a job at the check of line 169 with its source gone
C9_Step ==
    \A i \in Jobs :
        (/\ job[i].pc = "check" /\ ~Exists(subdirs[i])
         /\ job'[i] # job[i] /\ job'[i].pc # "raised")
            => /\ job'[i].pc = "done"
               /\ job'[i].result.status = "error"
               /\ job'[i].result.reason = SOURCE_MISSING
               /\ fs' = fs
               /\ lock = i /\ lock' = 0
\* C9: when the source is gone at the check of line 169, execute returns
\* 'error' with 'Source missing', the directories stay as they are and the
\* lock is free afterwards.
C9_SourceMissing == [][C9_Step]_vars

\* execute has returned 'Source missing' and nothing is at the target
C9_Witness ==
    \E i \in Jobs :
        /\ Done(i) /\ job[i].result.status = "error"
        /\ job[i].result.reason = SOURCE_MISSING
        /\ ~Exists(subdirs[i]) /\ ~Exists(job[i].final_path)
        /\ lock # i

\* the largest count of a histogram
ModeCount(dates) ==
    CHOOSE c \in {dates[k].n : k \in 1..Len(dates)} :
        \A k \in 1..Len(dates) : dates[k].n <= c
\* C10: a folder with a histogram is skipped for low confidence exactly when
\* modeCount / totalScanned is strictly below the threshold, modeCount being
\* the largest count of the histogram; otherwise it is given a candidate name.
C10_Threshold ==
    (probe.pc = "done" /\ probe.scan.dates # <<>>) =>
        /\ probe.dec.skip <=>
              ModeCount(probe.scan.dates) * probe.threshold.den
                  < probe.threshold.num * probe.scan.total
        /\ probe.dec.skip =>
              SubSeq(probe.dec.reason, 1, Len(LOW_CONFIDENCE)) = LOW_CONFIDENCE
        /\ ~probe.dec.skip => probe.dec.candidate # <<>>

\* a folder whose confidence equals the threshold was not skipped
C10_Witness ==
    /\ probe.pc = "done" /\ probe.scan.dates # <<>>
    /\ probe.threshold.num > 0
    /\ probe.scan.total > ModeCount(probe.scan.dates)
    /\ ModeCount(probe.scan.dates) * probe.threshold.den
          = probe.threshold.num * probe.scan.total
    /\ ~probe.dec.skip

\* C11: a folder whose name is empty once the leading digits, dots, dashes,
\* slashes and whitespace are stripped, and whose evidence passes the
\* threshold, is proposed the name '<modeDate> <original folder name>'.
C11_EmptyNameFallback ==
    (/\ probe.pc = "done" /\ ~probe.dec.skip
     /\ Strip(StripNoise(probe.name)) = <<>>)
        => probe.dec.candidate
              = most_common(probe.scan.dates).date \o <<" ">> \o probe.name

\* the year of a key of the histogram, "YYYY-MM-DD"
DigitVal(c) == (CHOOSE i \in 1..10 : DigitChars[i] = c) - 1
YearOf(key) ==
    1000 * DigitVal(key[1]) + 100 * DigitVal(key[2])
        + 10 * DigitVal(key[3]) + DigitVal(key[4])

\* C12: every date of the histogram scan_folder returns, from an image or
\* from a video, has its year in [MIN_YEAR, MAX_YEAR], and so has the mode
\* date of a candidate name.
C12_PlausibleYears ==
    probe.pc \in {"decide", "done"} =>
        /\ \A k \in 1..Len(probe.scan.dates) :
              /\ MIN_YEAR <= YearOf(probe.scan.dates[k].date)
              /\ YearOf(probe.scan.dates[k].date) <= MAX_YEAR
        /\ (probe.pc = "done" /\ ~probe.dec.skip) =>
              /\ MIN_YEAR <= YearOf(probe.dec.candidate)
              /\ YearOf(probe.dec.candidate) <= MAX_YEAR

\* the same for the image files alone, which _parse_date filters
C12_ImagesOnly ==
    (/\ probe.pc \in {"decide", "done"}
     /\ \A k \in 1..Len(probe.listing) : probe.listing[k].ext \in IMAGE_EXT)
        => \A k \in 1..Len(probe.scan.dates) :
              /\ MIN_YEAR <= YearOf(probe.scan.dates[k].date)
              /\ YearOf(probe.scan.dates[k].date) <= MAX_YEAR

\* C13: when a dry run follows a dry run on the same directories with the
\* same thresholds and case, it reports for every enumerated folder one
\* record, and its records (status, new_name, reason) are those of the
\* first run, whatever the worker counts and the schedules of the two runs.
C13_DryRunDeterminism ==
    (/\ phase \in {"Report", "Done"} /\ ~cfg.live /\ history # <<>>
     /\ ~history[Len(history)].live /\ history[Len(history)].fs0 = fs0)
        => /\ Range(all_results) = history[Len(history)].results
           /\ \A i \in 1..Len(subdirs) :
                 Cardinality(RecordsOf(all_results, subdirs[i])) = 1

\* a second dry run on two workers has reported, as the first did, two
\* folders with the same proposed name, the second folder collected first
C13_Witness ==
    /\ phase = "Done" /\ ~cfg.live /\ history # <<>> /\ cfg.workers = 2
    /\ Len(all_results) = 2
    /\ all_results[1].original_path = subdirs[2]
    /\ all_results[1].status = "dry_run" /\ all_results[2].status = "dry_run"
    /\ all_results[1].new_name = all_results[2].new_name
    /\ Range(all_results) = history[1].results

\* the lines of the undo script that move something to a path
LinesTo(path) ==
    {k \in 1..Len(undo.lines) : undo.lines[k].dst = Quote(path)}

NoEvidence(i) ==
    \/ files_found(Listing(fs0[subdirs[i]]), <<>>) = <<>>
    \/ scan_folder(Listing(fs0[subdirs[i]])).dates = <<>>
WeakEvidence(i) ==
    /\ ~NoEvidence(i)
    /\ ModeCount(scan_folder(Listing(fs0[subdirs[i]])).dates) * cfg.confidence.den
          < cfg.confidence.num * scan_folder(Listing(fs0[subdirs[i]])).total

ProposedName(i) ==
    sanitize_name(new_name_candidate(
        most_common(scan_folder(Listing(fs0[subdirs[i]])).dates).date,
        clean_base_name(subdirs[i], cfg.case)))

\* C16: a folder with sufficient evidence whose sanitized proposed name is
\* its own name gets 'unchanged', in live runs as in dry runs: its job
\* never waits for or holds the lock and never renames, the name returned
\* is the folder's name without a suffix (no unique path is computed), the
\* undo script has no line that moves something to the folder's path, and
\* unless another program removed it the folder stays at its path and no
\* line of the undo script moves it.
C16_Unchanged ==
    \A i \in Jobs :
        /\ (/\ extDeletes = 0 /\ ~NoEvidence(i) /\ ~WeakEvidence(i)
            /\ ProposedName(i) = subdirs[i])
              => /\ job[i].pc \in {"queued", "scan", "done", "raised"}
                 /\ Done(i) => job[i].result.status = "unchanged"
        /\ (Done(i) /\ job[i].result.status = "unchanged")
              => /\ job[i].target = subdirs[i]
                 /\ job[i].result.new_name = subdirs[i]
                 /\ job[i].final_path = <<>>
                 /\ lock # i
                 /\ LinesTo(subdirs[i]) = {}
                 /\ extDeletes = 0 =>
                       /\ \A n \in 1..Len(undo.lines) :
                             undo.lines[n].src # Quote(subdirs[i])
                       /\ Exists(subdirs[i])
                       /\ fs[subdirs[i]] = fs0[subdirs[i]]

\* a live run has left one folder unchanged and renamed another to the
\* same name plus " (1)"; the undo script holds the one line of the rename
C16_Witness ==
    /\ phase = "Done" /\ cfg.live /\ undo.written /\ Len(undo.lines) = 1
    /\ \E i, j \in Jobs :
          /\ Done(i) /\ job[i].result.status = "unchanged"
          /\ ProposedName(i) = subdirs[i]
          /\ Exists(subdirs[i])
          /\ RenamedJob(j)
          /\ job[j].result.new_name = Suffixed(subdirs[i], 1)

\* a dry run has reported a folder unchanged
C16_WitnessDry ==
    /\ phase = "Done" /\ ~cfg.live
    /\ \E i \in Jobs :
          /\ Done(i) /\ job[i].result.status = "unchanged"
          /\ \E k \in 1..Len(report.body) : report.body[k] = job[i].result

\* C17: in a live run of exif-date-organizer.py no rename has a target that
\* exists when the rename is made (so none fails because another worker
\* took its target), nothing is replaced, and two folders renamed with the
\* same computed name are at distinct paths.
C17_DateUnique ==
    cfg.live =>
        /\ clobbered = {}
        /\ \A i \in Jobs : job[i].pc = "rename" => ~Exists(job[i].final_path)
        /\ \A i, j \in Jobs :
              (i # j /\ RenamedJob(i) /\ RenamedJob(j)
                     /\ job[i].target = job[j].target)
                  => job[i].final_path # job[j].final_path

\* job i is between the start of get_unique_path and the end of its rename
InSection(i) == job[i].pc \in {"check", "rename"}

\* at most one job is in the section, and it is the holder of the lock; a
\* job outside it (queued, scanning, deciding, waiting, finished) holds no
\* lock
C18_Exclusive ==
    /\ Cardinality({i \in Jobs : InSection(i)}) <= 1
    /\ \A i \in Jobs : InSection(i) <=> lock = i
    /\ lock # 0 => cfg.live
\* while a job stays in the section no step of another job changes the
\* directories (a change then is a deletion by another program); and the
\* step of a scanning job is taken whoever holds the lock and leaves the
\* lock as it is
C18_Step ==
    \A i \in Jobs :
        /\ (InSection(i) /\ job'[i] = job[i])
              => (fs' = fs \/ extDeletes' = extDeletes + 1)
        /\ (job[i].pc = "scan" /\ job'[i] # job[i])
              => /\ lock' = lock /\ lock # i
                 /\ job'[i].pc \in {"done", "lock", "raised"}
\* C18: in a live run at most one worker is between the start of the
\* uniqueness check and the end of its rename, no rename of another worker
\* happens while it is there, and a worker that scans or decides holds no
\* lock and is not held up by the one that renames.
C18_MutualExclusion == []C18_Exclusive /\ [][C18_Step]_vars

\* one worker is at its rename with the lock; the other has finished its
\* scan, was proposed the same name and waits for the lock
C18_Witness ==
    /\ cfg.live /\ cfg.workers = 2
    /\ \E i, j \in Jobs :
          /\ lock = i /\ job[i].pc = "rename"
          /\ job[j].pc = "lock"
          /\ job[i].target = job[j].target

\* one worker is at its rename with the lock while the other is scanning
C18_WitnessScanning ==
    /\ cfg.live /\ cfg.workers = 2
    /\ \E i, j \in Jobs :
          /\ lock = i /\ job[i].pc = "rename"
          /\ job[j].pc = "scan"

\* the sum of the counts of a histogram
RECURSIVE SumCounts(_)
SumCounts(dates) ==
    IF dates = <<>> THEN 0 ELSE Head(dates).n + SumCounts(Tail(dates))
\* the files among the first k of the list that have a date
Dated(files, k) == {j \in 1..k : get_date(files[j]) # None}

\* during the scan the dated files counted are those among the files taken,
\* never more than SAMPLE_SIZE; the files a returned scan left unscanned are
\* left because of the cap; and on the short listings the returned pair is
\* the one the operator scan_folder gives
C19_Capped ==
    /\ SumCounts(probe.date_counter) = probe.valid_dates_found
    /\ probe.valid_dates_found <= SAMPLE_SIZE
    /\ probe.scanned_count = probe.k
    /\ probe.k <= Len(probe.files_found)
    /\ probe.valid_dates_found
          = Cardinality(Dated(probe.files_found, probe.k))
    /\ probe.pc = "returned" =>
          /\ SumCounts(probe.ret.dates) <= SAMPLE_SIZE
          /\ probe.ret.total < Len(probe.files_found)
                => SumCounts(probe.ret.dates) = SAMPLE_SIZE
          /\ Len(probe.listing) <= MaxTail
                => probe.ret = scan_folder(probe.listing)
\* with the cap reached no further file is taken and the counts stay; a
\* file without a date adds to the scanned count only
C19_Step ==
    /\ probe.valid_dates_found = SAMPLE_SIZE =>
          /\ probe'.k = probe.k
          /\ probe'.scanned_count = probe.scanned_count
          /\ probe'.date_counter = probe.date_counter
          /\ probe'.pc = "returned"
    /\ (probe.pc = "loop" /\ probe'.k = probe.k + 1
          /\ get_date(probe.files_found[probe.k + 1]) = None) =>
          /\ probe'.valid_dates_found = probe.valid_dates_found
          /\ probe'.date_counter = probe.date_counter
          /\ probe'.scanned_count = probe.scanned_count + 1
C20_Covered ==
    /\ probe.scanned_count >= SumCounts(probe.date_counter)
    /\ \A n \in 1..Len(probe.date_counter) : probe.date_counter[n].n > 0
    /\ probe.scanned_count = 0 => probe.date_counter = <<>>
    /\ probe.pc = "returned" =>
          /\ probe.ret.total >= SumCounts(probe.ret.dates)
          /\ probe.ret.total = 0 => probe.ret.dates = <<>>
          /\ \A c \in 0..SAMPLE_SIZE :
                confidence_of(c, 0) = [num |-> 0, den |-> 1]
          /\ probe.ret.dates # <<>> =>
                LET top == most_common(probe.ret.dates)
                    conf == confidence_of(top.n, probe.ret.total)
                IN  /\ top.n = ModeCount(probe.ret.dates)
                    /\ 0 < top.n /\ top.n <= probe.ret.total
                    /\ conf = [num |-> top.n, den |-> probe.ret.total]
                    /\ conf.den > 0
                    /\ 0 <= conf.num /\ conf.num <= conf.den
\* one step of the scan adds 1 to the scanned count and at most 1 to the
\* histogram
C20_Step ==
    probe'.scanned_count # probe.scanned_count =>
        /\ probe'.scanned_count = probe.scanned_count + 1
        /\ SumCounts(probe'.date_counter) - SumCounts(probe.date_counter)
              \in {0, 1}
\* C20: at every step of scan_folder and in its returned value the scanned
\* count is at least the sum of the histogram counts; for a returned
\* non-empty histogram 0 < modeCount <= totalScanned and the confidence
\* modeCount / totalScanned is in [0, 1]; with totalScanned = 0 the
\* confidence is 0 and nothing is divided.
C20_HistogramInvariant == []C20_Covered /\ [][C20_Step]_vars

\* a returned histogram of two dates, the scanned count above the sum of
\* its counts, which is above the largest count
C20_Witness ==
    /\ probe.pc = "returned"
    /\ Len(probe.ret.dates) = 2
    /\ probe.ret.total > SumCounts(probe.ret.dates)
    /\ SumCounts(probe.ret.dates) > ModeCount(probe.ret.dates)

\* a scan has returned with files found and none of them dated
C20_WitnessUndated ==
    /\ probe.pc = "returned"
    /\ probe.ret.dates = <<>>
    /\ probe.ret.total > 0

\* the files of a list that give the date of the key, and the place of the
\* first of them
Occurrences(files, key) ==
    {j \in 1..Len(files) :
        get_date(files[j]) # None /\ strftime(get_date(files[j])) = key}
FirstAt(files, key) ==
    CHOOSE j \in Occurrences(files, key) :
        \A k \in Occurrences(files, key) : j <= k
\* the date that has the largest number of files of the list and, among
\* the dates that have as many, the one whose first file comes first
IsFirstMode(files, key) ==
    /\ Occurrences(files, key) # {}
    /\ \A j \in 1..Len(files) :
          get_date(files[j]) # None =>
            LET other == strftime(get_date(files[j]))
            IN  /\ Cardinality(Occurrences(files, other))
                      <= Cardinality(Occurrences(files, key))
                /\ Cardinality(Occurrences(files, other))
                      = Cardinality(Occurrences(files, key))
                      => FirstAt(files, key) <= FirstAt(files, other)
\* C21: the date _process_folder selects has the largest count of the
\* histogram, and among the dates of that count it is the one that the scan
\* inserted first: the date of the first dated file in the order the scan
\* takes the files, every image file before every video file.
C21_ModeTieBreak ==
    (probe.pc \in {"decide", "done"} /\ probe.scan.dates # <<>>) =>
        LET found == files_found(probe.listing, <<>>)
            top == most_common(probe.scan.dates)
        IN  /\ \A j, k \in 1..Len(found) :
                  (found[j].ext \in IMAGE_EXT /\ found[k].ext \in VIDEO_EXT)
                      => j < k
            /\ top.n = ModeCount(probe.scan.dates)
            /\ top.n = Cardinality(Occurrences(found, top.date))
            /\ IsFirstMode(found, top.date)
            /\ \A n \in 1..Len(probe.scan.dates) :
                  probe.scan.dates[n].n = top.n
                      => \E m \in 1..n : probe.scan.dates[m] = top
            /\ (probe.pc = "done" /\ ~probe.dec.skip) =>
                  IsFirstMode(found, SubSeq(probe.dec.candidate, 1, 10))

\* a folder was given the date of an image that the walk met after a video
\* of another date, the two dates with one file each
C21_Witness ==
    /\ probe.pc = "done" /\ ~probe.dec.skip
    /\ Len(probe.scan.dates) = 2
    /\ probe.scan.dates[1].n = probe.scan.dates[2].n
    /\ SubSeq(probe.dec.candidate, 1, 10) = probe.scan.dates[1].date
    /\ \E j, k \in 1..Len(probe.listing) :
          /\ j < k
          /\ probe.listing[j].ext \in VIDEO_EXT
          /\ probe.listing[k].ext \in IMAGE_EXT
          /\ get_date(probe.listing[j]) # None
          /\ get_date(probe.listing[k]) # None
          /\ strftime(get_date(probe.listing[k])) = probe.scan.dates[1].date
          /\ strftime(get_date(probe.listing[j])) = probe.scan.dates[2].date

\* what get_unique_path has returned, and what the operator of the run's
\* model gives for the same argument and names
C22_Returned ==
    /\ probe.pc = "loop" =>
          /\ probe.counter >= 1
          /\ probe.base_path \in probe.exists
          /\ \A m \in 1..(probe.counter - 1) :
                Suffixed(probe.base_path, m) \in probe.exists
    /\ probe.pc = "returned" =>
          /\ probe.ret \notin probe.exists
          /\ probe.base_path \notin probe.exists
                => probe.ret = probe.base_path /\ probe.counter = 0
          /\ probe.base_path \in probe.exists =>
                /\ probe.counter >= 1
                /\ probe.ret = Suffixed(probe.base_path, probe.counter)
                /\ \A m \in 1..(probe.counter - 1) :
                      Suffixed(probe.base_path, m) \in probe.exists
          /\ probe.counter <= Cardinality(probe.exists)
          /\ probe.ret = get_unique_path(probe.exists, probe.base_path)
\* the counter goes up by one from 1, and what has been returned stays
C22_Step ==
    /\ probe'.counter \in {probe.counter, probe.counter + 1}
    /\ probe.pc = "returned" => probe' = probe
\* C22: get_unique_path(base) returns base when no path named base exists,
\* and otherwise 'base (n)' for the smallest n >= 1 for which 'base (n)'
\* does not exist; the returned path does not exist when it is returned;
\* and the search ends for every finite set of existing names.
C22_UniquePath ==
    []C22_Returned /\ [][C22_Step]_vars /\ <>(probe.pc = "returned")

\* the search went through the one-digit suffixes to a suffix of two digits
C22_Witness ==
    /\ probe.pc = "returned"
    /\ probe.base_path = <<"a">>
    /\ probe.ret = <<"a", " ", "(", "1", "0", ")">>

\* 'a (1)' exists and is itself the base: 'a (1) (1)' is returned
C22_WitnessSuffixedBase ==
    /\ probe.pc = "returned"
    /\ probe.base_path = <<"a", " ", "(", "1", ")">>
    /\ probe.ret = <<"a", " ", "(", "1", ")", " ", "(", "1", ")">>

\* the phase changes of the state machine of the run, and those of an
\* interrupted run
PhaseOrder ==
    { <<"Init", "Enumerate">>, <<"Enumerate", "Collect">>,
      <<"Collect", "Report">>, <<"Report", "Done">> }
PhaseOrderInterrupted ==
    { <<"Collect", "Interrupted">>, <<"Interrupted", "Aborted">> }
\* one job for each enumerated folder, and nothing in flight once the
\* report is written
C23_Frame ==
    /\ phase \in {"Init", "Enumerate"} => job = <<>>
    /\ phase = "Init" => subdirs = <<>>
    /\ phase \notin {"Init", "Enumerate"} => Len(job) = Len(subdirs)
    /\ \A i, j \in 1..Len(subdirs) : i # j => subdirs[i] # subdirs[j]
    /\ \A i \in Jobs : Done(i) => job[i].result.original_path = subdirs[i]
    /\ report.written <=> phase \in {"Report", "Done"}
    /\ undo.written => report.written
    /\ report.written =>
          /\ lock = 0
          /\ \A i \in Jobs : Finished(i)
\* the folders are enumerated once, before the jobs exist; the jobs are
\* submitted once; after the report is written no job takes a step and
\* the directories change only by the operator's undo; each file is
\* written once
C23_Once ==
    /\ subdirs' # subdirs => phase = "Init" /\ phase' = "Enumerate" /\ job = <<>>
    /\ Len(job') # Len(job) => phase = "Enumerate" /\ phase' = "Collect"
    /\ (\E i \in Jobs : job[i].pc = "queued" /\ job'[i].pc # "queued")
          => phase \in {"Collect", "Interrupted"}
    /\ report.written =>
          /\ job' = job
          /\ report' = report
          /\ fs' # fs => undoPos' = undoPos + 1
    /\ undo.written => undo' = undo
    /\ report' # report => phase = "Collect" /\ phase' = "Report"
    /\ undo' # undo => phase = "Collect" /\ phase' = "Report"
C23_Step ==
    /\ phase' # phase => <<phase, phase'>> \in PhaseOrder
    /\ C23_Once
C23_StepUninterrupted ==
    /\ phase' # phase =>
          <<phase, phase'>> \in PhaseOrder \cup PhaseOrderInterrupted
    /\ phase \in {"Interrupted", "Aborted"} => report' = report /\ undo' = undo
    /\ C23_Once
C23_WitnessInterrupted ==
    /\ phase = "Aborted"
    /\ ~report.written /\ ~undo.written
    /\ \E i \in Jobs : RenamedJob(i)

\* the lock is held by a job inside the with block and by no other
C24_Held ==
    /\ \A i \in Jobs : lock = i <=> InSection(i)
    /\ \A i \in Jobs : Finished(i) => lock # i
    /\ (lock = 0 /\ \E i \in Jobs : job[i].pc = "lock")
          => ENABLED (\E i \in Jobs : Acquire(i))
\* a job leaves the with block by a return with 'renamed' or 'error' or by
\* an exception, and the lock is free after that step
C24_Exit ==
    \A i \in Jobs :
        (InSection(i) /\ job'[i].pc \notin {"check", "rename"})
            => /\ lock = i /\ lock' = 0
               /\ job'[i].pc \in {"done", "raised"}
               /\ job'[i].pc = "done" =>
                     \/ /\ job[i].pc = "rename"
                        /\ job'[i].result.status = "renamed"
                     \/ /\ job[i].pc = "rename"
                        /\ job'[i].result.status = "error"
                        /\ job'[i].result.reason = OS_ERROR
                     \/ /\ job[i].pc = "check"
                        /\ job'[i].result.status = "error"
                        /\ job'[i].result.reason = SOURCE_MISSING
\* a job that has entered execute in live mode and waits for the lock, or
\* holds it, has left execute before long: it has returned 'renamed' or
\* 'error', or an exception has left the function
Left(i) ==
    /\ i \in Jobs
    /\ \/ job[i].pc = "raised"
       \/ Done(i) /\ job[i].result.status \in {"renamed", "error"}
C24_Returns ==
    \A i \in 1..MaxFolders :
        (i \in Jobs /\ job[i].pc \in {"lock", "check", "rename"}) ~> Left(i)
\* C24: the rename lock is free after every exit of execute ('renamed',
\* 'Source missing', an OSError of the rename, an exception), so no worker
\* waits for the lock forever: with the threads scheduled fairly every job
\* that enters execute in live mode leaves it.
C24_LockReleased == []C24_Held /\ [][C24_Exit]_vars /\ C24_Returns

\* a rename failed inside the with block and the job that waited for the
\* lock then renamed its folder to the name the first had been given
C24_Witness ==
    /\ cfg.live
    /\ \E i, j \in Jobs :
          /\ Done(i) /\ job[i].result.status = "error"
          /\ job[i].result.reason = OS_ERROR
          /\ job[i].final_path = job[i].target
          /\ job[j].target = job[i].target
          /\ RenamedJob(j) /\ job[j].result.new_name = job[j].target

\* the same after an exception inside the with block
C24_WitnessRaised ==
    /\ cfg.live
    /\ \E i, j \in Jobs :
          /\ job[i].pc = "raised" /\ job[i].final_path # <<>>
          /\ job[i].final_path = job[i].target
          /\ job[j].target = job[i].target
          /\ RenamedJob(j) /\ job[j].result.new_name = job[j].target

\* the same after 'Source missing'
C24_WitnessMissing ==
    /\ cfg.live
    /\ \E i, j \in Jobs :
          /\ Done(i) /\ job[i].result.reason = SOURCE_MISSING
          /\ job[i].final_path = job[i].target
          /\ job[j].target = job[i].target
          /\ RenamedJob(j) /\ job[j].result.new_name = job[j].target

\* the folder that was at the path when the run started is there no more
MovedFrom(path) == ~(Exists(path) /\ fs[path] = fs0[path])
\* as long as nothing but the run has touched the root: the folder of a
\* 'renamed' result is at full_new_path and no longer at original_path,
\* the folder of any other result is where it was, and as many folders
\* have moved as there are 'renamed' results; a dry run has none
C25_Matches ==
    /\ ~cfg.live => \A i \in Jobs : ~RenamedJob(i)
    /\ \A i \in Jobs : Done(i) => job[i].result.original_path = subdirs[i]
    /\ (extDeletes = 0 /\ undoPos = 0) =>
          /\ \A i \in Jobs :
                RenamedJob(i) =>
                    /\ Exists(job[i].result.full_new_path)
                    /\ fs[job[i].result.full_new_path] = fs0[subdirs[i]]
                    /\ job[i].result.full_new_path # subdirs[i]
                    /\ MovedFrom(subdirs[i])
          /\ \A i \in Jobs :
                (Done(i) /\ ~RenamedJob(i)) =>
                    /\ job[i].result.status
                          \in {"skipped", "unchanged", "dry_run", "error"}
                    /\ ~MovedFrom(subdirs[i])
          /\ Cardinality({n \in DOMAIN fs0 : MovedFrom(n)})
                = Cardinality({i \in Jobs : RenamedJob(i)})
          /\ Cardinality(DOMAIN fs) = Cardinality(DOMAIN fs0)
\* a step of the run that changes the directories is the rename of one
\* job, which returns 'renamed' with the path the folder went to; a step
\* that gives a job any other result changes no directory; and a job that
\* has its result takes no further step
C25_Effect ==
    /\ (fs' # fs /\ extDeletes' = extDeletes /\ undoPos' = undoPos) =>
          /\ cfg.live
          /\ \E i \in Jobs :
                /\ job[i].pc = "rename" /\ job'[i].pc = "done"
                /\ job'[i].result.status = "renamed"
                /\ job'[i].result.original_path = subdirs[i]
                /\ Exists(subdirs[i])
                /\ ~Exists(job'[i].result.full_new_path)
                /\ fs' = Renamed(subdirs[i], job'[i].result.full_new_path)
                /\ \A j \in Jobs \ {i} : job'[j] = job[j]
    /\ \A i \in Jobs :
          (job[i].pc # "done" /\ job'[i].pc = "done"
              /\ job'[i].result.status # "renamed") => fs' = fs
    /\ \A i \in Jobs :
          (job[i].pc # "done" /\ job'[i].pc = "done"
              /\ job'[i].result.status = "renamed") => fs' # fs
    /\ \A i \in Jobs : Finished(i) => job'[i] = job[i]
\* C25: in a live run each enumerated folder is renamed at most once, only
\* a job whose result is 'renamed' renames, and full_new_path of such a
\* result is the path the folder of original_path went to; a result
\* 'skipped', 'unchanged', 'dry_run' or 'error' goes with no change of the
\* directories.
C25_ResultsMatchEffects == []C25_Matches /\ [][C25_Effect]_vars

\* a live run is done and undisturbed: one folder was renamed with a
\* suffix and is at that path, the rename of the other failed and it is
\* where it was
C25_Witness ==
    /\ cfg.live /\ phase = "Done" /\ extDeletes = 0 /\ undoPos = 0
    /\ \E i, j \in Jobs :
          /\ RenamedJob(i)
          /\ job[i].result.full_new_path = Suffixed(job[i].target, 1)
          /\ Exists(job[i].result.full_new_path)
          /\ ~Exists(subdirs[i])
          /\ Done(j) /\ job[j].result.status = "error"
          /\ Exists(subdirs[j])

====
